---- MODULE Spec2Model ----
(***************************************************************************)
(* Model of the event-sourcing core of go-eventsource:                     *)
(*   - AggregateRepository (Get, Create, GetOrCreate, Update, Load, Save), *)
(*   - the Aggregate glue (ChangeState),                                   *)
(*   - the EventStore contract (ListEvents, SaveEvents) in its in-memory   *)
(*     form, which fails only with ErrConcurrentUpdate,                    *)
(*   - the accounting example's Book aggregate root.                       *)
(*                                                                         *)
(* Several callers (Procs) run repository operations concurrently against  *)
(* one store.  Every call of ListEvents and of SaveEvents is one atomic    *)
(* step; the code a caller runs between two store calls touches only its   *)
(* own aggregate and is folded into the step of the store call after it.   *)
(* The command and the context of an operation are drawn when the          *)
(* operation first reads them (at ChangeState and at Save).                *)
(* Four specifications run the same actions: Spec; SpecCounted, which      *)
(* keeps the history of the calls of SaveEvents in tally; SpecCalls, which *)
(* keeps the history of the returns of Create and GetOrCreate, in runs of  *)
(* one call fewer; and SpecLifeCycle, in which one caller makes up to      *)
(* MaxOps + 1 calls in sequence, every other caller one call, and stage    *)
(* follows the example scenario of the documentation.                      *)
(* Timestamps are not modelled: no operation reads them.                   *)
(***************************************************************************)
EXTENDS Integers, Sequences, FiniteSets, Bags, TLC

\* ------------------------------------------------------------------ bounds
\* number of concurrent callers
NumProcs == 2
\* number of repository / aggregate calls started in one behaviour
MaxOps == 3

Procs == 1..NumProcs

\* ------------------------------------------------------------- identifiers
EmptyID == ""
CallerIDs == {"a"}
\* what uuid.NewRandom can hand out for an empty id
GeneratedIDs == {"uuid-1"}
AllIDs == CallerIDs \cup GeneratedIDs

\* ------------------------------------------------------------------ errors
\* An error is the chain of fmt.Errorf("...: %w") prefixes, outermost first,
\* ending in the sentinel that was wrapped; the nil error is the empty chain.
Nil == <<>>
ErrAggregateDoesNotExist == "ErrAggregateDoesNotExist"
ErrAggregateAlreadyExists == "ErrAggregateAlreadyExists"
ErrConcurrentUpdate == "ErrConcurrentUpdate"
ErrCommandUnknown == "ErrCommandUnknown"
ErrBookAlreadyCreated == "ErrBookAlreadyCreated"
ErrBookClosed == "ErrBookClosed"
ErrAccountNameConflict == "ErrAccountNameConflict"
ErrAccountNameEmpty == "ErrAccountNameEmpty"
ErrAccountTypeUnknown == "ErrAccountTypeUnknown"
ErrAccountDebitedNotFound == "ErrAccountDebitedNotFound"
ErrAccountCreditedNotFound == "ErrAccountCreditedNotFound"
ErrAccountDebitDeclined == "ErrAccountDebitDeclined"
ErrAccountCreditDeclined == "ErrAccountCreditDeclined"
\* a Go panic unwinding the call (ApplyStateChange's fatal conditions)
Panic == "panic"

Sentinel(e) == <<e>>
Wrap(prefix, err) == <<prefix>> \o err
\* errors.Is: the sentinel at the end of the %w chain
ErrorsIs(err, target) == err # Nil /\ err[Len(err)] = target

\* --------------------------------------------------------------- the Book
AccountType_UNKNOWN == "UNKNOWN"
AccountType_ASSET == "ASSET"

\* the accounts map: nil until applyCreated makes it
NilAccounts == [isNil |-> TRUE, entries |-> {}]
ZeroBook ==
    [created |-> FALSE, closed |-> FALSE, description |-> "",
     transactions |-> <<>>, accounts |-> NilAccounts]

HasAccount(b, name) == \E a \in b.accounts.entries : a.name = name
AccountOf(b, name) == CHOOSE a \in b.accounts.entries : a.name = name

\* Commands.  Account.canDebit / canCredit are not part of the sources at
\* hand: their outcome is an input of the command, -1 for "declined",
\* otherwise the new balance.
Declined == 0 - 1
BookCreateCmds == {[type |-> "BookCreate", description |-> "d"]}
BookCloseCmds == {[type |-> "BookClose"]}
BookAccountAddCmds ==
    {[type |-> "BookAccountAdd", accountName |-> n, accountType |-> t] :
        n \in {"", "x"}, t \in {AccountType_UNKNOWN, AccountType_ASSET}}
BookTransactionEnterCmds ==
    {[type |-> "BookTransactionEnter", accountDebited |-> t[1],
      accountCredited |-> t[2], amount |-> 1, canDebit |-> t[3],
      canCredit |-> t[4]] :
        t \in {<<"x", "x", 1, 0>>, <<"x", "x", Declined, 0>>,
               <<"x", "x", 1, Declined>>, <<"z", "x", 1, 0>>,
               <<"x", "z", 1, 0>>}}
UnknownCmds == {[type |-> "Unknown"]}
Commands ==
    BookCreateCmds \cup BookCloseCmds \cup BookAccountAddCmds
        \cup BookTransactionEnterCmds \cup UnknownCmds

Rejected(e) == [err |-> Sentinel(e), stateChanges |-> <<>>]
Accepted(scs) == [err |-> Nil, stateChanges |-> scs]

processCreate(b, cmd) ==
    IF b.created THEN Rejected(ErrBookAlreadyCreated)
    ELSE IF b.closed THEN Rejected(ErrBookClosed)
    ELSE Accepted(<<[type |-> "BookCreated", description |-> cmd.description]>>)

processClose(b, cmd) ==
    IF b.closed THEN Rejected(ErrBookClosed)
    ELSE Accepted(<<[type |-> "BookClosed"]>>)

\* (variant: accounts may be added to a closed book)
processAccountAddOnClosed(b, cmd) ==
    IF HasAccount(b, cmd.accountName) THEN Rejected(ErrAccountNameConflict)
    ELSE IF cmd.accountName = "" THEN Rejected(ErrAccountNameEmpty)
    ELSE IF cmd.accountType = AccountType_UNKNOWN
        THEN Rejected(ErrAccountTypeUnknown)
    ELSE Accepted(<<[type |-> "BookAccountAdded", name |-> cmd.accountName,
                     accountType |-> cmd.accountType]>>)

processAccountAdd(b, cmd) ==
    IF b.closed THEN Rejected(ErrBookClosed)
    ELSE IF HasAccount(b, cmd.accountName) THEN Rejected(ErrAccountNameConflict)
    ELSE IF cmd.accountName = "" THEN Rejected(ErrAccountNameEmpty)
    ELSE IF cmd.accountType = AccountType_UNKNOWN
        THEN Rejected(ErrAccountTypeUnknown)
    ELSE Accepted(<<[type |-> "BookAccountAdded", name |-> cmd.accountName,
                     accountType |-> cmd.accountType]>>)

processTransactionEnter(b, cmd) ==
    IF b.closed THEN Rejected(ErrBookClosed)
    ELSE IF ~HasAccount(b, cmd.accountDebited)
        THEN Rejected(ErrAccountDebitedNotFound)
    ELSE IF ~HasAccount(b, cmd.accountCredited)
        THEN Rejected(ErrAccountCreditedNotFound)
    ELSE IF cmd.canDebit = Declined THEN Rejected(ErrAccountDebitDeclined)
    ELSE IF cmd.canCredit = Declined THEN Rejected(ErrAccountCreditDeclined)
    ELSE Accepted(<<[type |-> "BookTransactionEntered",
                     accountDebited |-> cmd.accountDebited,
                     accountCredited |-> cmd.accountCredited,
                     amount |-> cmd.amount,
                     accountDebitedNewBalance |-> cmd.canDebit,
                     accountCreditedNewBalance |-> cmd.canCredit]>>)

ProcessCommand(b, cmd) ==
    CASE cmd.type = "BookCreate" -> processCreate(b, cmd)
      [] cmd.type = "BookClose" -> processClose(b, cmd)
      [] cmd.type = "BookAccountAdd" -> processAccountAdd(b, cmd)
      [] cmd.type = "BookTransactionEnter" -> processTransactionEnter(b, cmd)
      [] OTHER -> Rejected(ErrCommandUnknown)

\* ApplyStateChange returns the new book, or panicked = TRUE
Applied(b) == [book |-> b, panicked |-> FALSE]
Panicked(b) == [book |-> b, panicked |-> TRUE]

applyCreated(b, sc) ==
    Applied([b EXCEPT !.created = TRUE, !.description = sc.description,
                      !.accounts = [isNil |-> FALSE, entries |-> {}]])

\* (variant: the closing is not recorded in the book)
applyClosedForgetting(b, sc) == Applied(b)

applyClosed(b, sc) == Applied([b EXCEPT !.closed = TRUE])

SetBalance(entries, name, balance) ==
    {IF a.name = name THEN [a EXCEPT !.balance = balance] ELSE a : a \in entries}

\* a write into a nil map panics
applyAccountAdded(b, sc) ==
    IF b.accounts.isNil THEN Panicked(b)
    ELSE Applied([b EXCEPT !.accounts.entries =
            {a \in @ : a.name # sc.name} \cup
            {[name |-> sc.name, type_ |-> sc.accountType, balance |-> 0]}])

\* a missing account is a nil *Account, whose field write panics
applyTransactionEntered(b, sc) ==
    IF ~HasAccount(b, sc.accountDebited) THEN Panicked(b)
    ELSE LET e1 == SetBalance(b.accounts.entries, sc.accountDebited,
                              sc.accountDebitedNewBalance)
             b1 == [b EXCEPT !.accounts.entries = e1]
         IN IF ~HasAccount(b1, sc.accountCredited) THEN Panicked(b1)
            ELSE Applied([b1 EXCEPT
                    !.accounts.entries = SetBalance(e1, sc.accountCredited,
                                            sc.accountCreditedNewBalance),
                    !.transactions = Append(@,
                        [accountDebited |-> sc.accountDebited,
                         accountCredited |-> sc.accountCredited,
                         amount |-> sc.amount])])

ApplyStateChange(b, sc) ==
    CASE sc.type = "BookCreated" -> applyCreated(b, sc)
      [] sc.type = "BookClosed" -> applyClosed(b, sc)
      [] sc.type = "BookAccountAdded" -> applyAccountAdded(b, sc)
      [] sc.type = "BookTransactionEntered" -> applyTransactionEntered(b, sc)
      [] OTHER -> Panicked(b)

\* ------------------------------------------------- payloads (anypb.Any)
\* anypb.New: the type URL of the message and its fields in field order
TypeURLPrefix == "type.googleapis.com/accountingpb."

AnyNew(sc) ==
    [typeUrl |-> TypeURLPrefix \o sc.type,
     value |->
        CASE sc.type = "BookCreated" -> <<sc.description>>
          [] sc.type = "BookClosed" -> <<>>
          [] sc.type = "BookAccountAdded" -> <<sc.name, sc.accountType>>
          [] sc.type = "BookTransactionEntered" ->
                <<sc.accountDebited, sc.accountCredited, sc.amount,
                  sc.accountDebitedNewBalance, sc.accountCreditedNewBalance>>]

\* Any.UnmarshalNew: a new message of the type the URL names
UnmarshalNew(any) ==
    CASE any.typeUrl = TypeURLPrefix \o "BookCreated" ->
            [err |-> Nil,
             stateChange |-> [type |-> "BookCreated", description |-> any.value[1]]]
      [] any.typeUrl = TypeURLPrefix \o "BookClosed" ->
            [err |-> Nil, stateChange |-> [type |-> "BookClosed"]]
      [] any.typeUrl = TypeURLPrefix \o "BookAccountAdded" ->
            [err |-> Nil,
             stateChange |-> [type |-> "BookAccountAdded", name |-> any.value[1],
                              accountType |-> any.value[2]]]
      [] any.typeUrl = TypeURLPrefix \o "BookTransactionEntered" ->
            [err |-> Nil,
             stateChange |-> [type |-> "BookTransactionEntered",
                              accountDebited |-> any.value[1],
                              accountCredited |-> any.value[2],
                              amount |-> any.value[3],
                              accountDebitedNewBalance |-> any.value[4],
                              accountCreditedNewBalance |-> any.value[5]]]
      [] OTHER -> [err |-> Sentinel("ErrUnknownMessageType"),
                   stateChange |-> [type |-> "none"]]

\* ---------------------------------------------------------------- metadata
CausationID == "causation_id"
NoMetadata == {}
\* the contexts a caller may pass: without and with a causation identifier
Contexts == {[metadata |-> NoMetadata],
             [metadata |-> {<<CausationID, "c1">>}]}
MetadataFromContext(ctx) == ctx.metadata
\* event.Metadata[CausationID].(string)
MetadataLookup(md, key) == {kv[2] : kv \in {x \in md : x[1] = key}}

\* --------------------------------------------------------------- Aggregate
NilAggregate ==
    [isNil |-> TRUE, id |-> EmptyID, version |-> 0, root |-> ZeroBook,
     stateChanges |-> <<>>, causationIDs |-> {}]

Version(a) == a.version

\* Aggregate.ChangeState: ProcessCommand, then each state change is applied
\* to the root, given the next version and appended to stateChanges.
RECURSIVE ApplyPending(_, _, _)
ApplyPending(a, scs, i) ==
    IF i > Len(scs) THEN [agg |-> a, err |-> Nil]
    ELSE LET r == ApplyStateChange(a.root, scs[i])
         IN IF r.panicked THEN [agg |-> a, err |-> Sentinel(Panic)]
            ELSE ApplyPending(
                    [a EXCEPT !.root = r.book, !.version = @ + 1,
                              !.stateChanges = Append(@, scs[i])],
                    scs, i + 1)

ChangeState(a, cmd) ==
    LET r == ProcessCommand(a.root, cmd)
    IN IF r.err # Nil THEN [agg |-> a, err |-> r.err]
       ELSE ApplyPending(a, r.stateChanges, 1)

\* -------------------------------------------------------------- EventStore
\* (variant: a store that replaces the stream by the batch)
SaveEventsOverwriting(stream, expectedVersion, events) ==
    IF Len(stream) # expectedVersion
    THEN [err |-> Sentinel(ErrConcurrentUpdate), stream |-> stream]
    ELSE [err |-> Nil, stream |-> events]

\* SaveEvents of the store: compare-and-append on the stream's length.
SaveEvents(stream, expectedVersion, events) ==
    IF Len(stream) # expectedVersion
    THEN [err |-> Sentinel(ErrConcurrentUpdate), stream |-> stream]
    ELSE [err |-> Nil, stream |-> stream \o events]

\* ------------------------------------------------------ AggregateRepository
\* Load: the fold of the listed events into a new root.
RECURSIVE ReplayWithoutCausation(_, _, _)
RECURSIVE Replay(_, _, _)
\* (variant: the causation identifiers of the events are not collected)
ReplayWithoutCausation(a, events, i) ==
    IF i > Len(events) THEN [agg |-> a, err |-> Nil]
    ELSE LET u == UnmarshalNew(events[i].data)
         IN IF u.err # Nil
            THEN [agg |-> NilAggregate, err |-> Wrap("unmarshal state change", u.err)]
            ELSE LET r == ApplyStateChange(a.root, u.stateChange)
                 IN IF r.panicked
                    THEN [agg |-> NilAggregate, err |-> Sentinel(Panic)]
                    ELSE Replay(
                            [a EXCEPT !.root = r.book,
                                      !.version = events[i].aggregateVersion],
                            events, i + 1)

Replay(a, events, i) ==
    IF i > Len(events) THEN [agg |-> a, err |-> Nil]
    ELSE LET u == UnmarshalNew(events[i].data)
         IN IF u.err # Nil
            THEN [agg |-> NilAggregate, err |-> Wrap("unmarshal state change", u.err)]
            ELSE LET r == ApplyStateChange(a.root, u.stateChange)
                 IN IF r.panicked
                    THEN [agg |-> NilAggregate, err |-> Sentinel(Panic)]
                    ELSE Replay(
                            [a EXCEPT !.root = r.book,
                                      !.version = events[i].aggregateVersion,
                                      !.causationIDs = @ \cup
                                        MetadataLookup(events[i].metadata, CausationID)],
                            events, i + 1)

Load(id, events) ==
    Replay([isNil |-> FALSE, id |-> id, version |-> 0, root |-> ZeroBook,
            stateChanges |-> <<>>, causationIDs |-> {}], events, 1)

\* (variant: the batch is numbered from originalVersion, not after it)
NewEventsOffByOne(a, originalVersion, metadata, serial) ==
    [i \in 1..Len(a.stateChanges) |->
        [id |-> <<serial, i>>,
         aggregateID |-> a.id,
         aggregateVersion |-> originalVersion + (i - 1),
         metadata |-> metadata,
         data |-> AnyNew(a.stateChanges[i])]]

\* (variant: the events are not given the aggregate's ID)
NewEventsWithoutID(a, originalVersion, metadata, serial) ==
    [i \in 1..Len(a.stateChanges) |->
        [id |-> <<serial, i>>,
         aggregateID |-> EmptyID,
         aggregateVersion |-> originalVersion + (i - 1) + 1,
         metadata |-> metadata,
         data |-> AnyNew(a.stateChanges[i])]]

\* the events Save builds; the event IDs uuid.NewRandom draws are the pair
\* of the call's serial number and the position in the batch
NewEvents(a, originalVersion, metadata, serial) ==
    [i \in 1..Len(a.stateChanges) |->
        [id |-> <<serial, i>>,
         aggregateID |-> a.id,
         aggregateVersion |-> originalVersion + (i - 1) + 1,
         metadata |-> metadata,
         data |-> AnyNew(a.stateChanges[i])]]

\* (variant: the pending state changes are not subtracted)
OriginalVersionIgnoringPending(a) == Version(a)

OriginalVersion(a) == Version(a) - Len(a.stateChanges)

\* (variant: the error of SaveEvents is dropped)
SaveIgnoringError(a, ctx, serial, stream) ==
    IF Len(a.stateChanges) = 0
    THEN [err |-> Nil, agg |-> a, stream |-> stream, called |-> FALSE,
          expected |-> 0 - 1]
    ELSE LET originalVersion == Version(a) - Len(a.stateChanges)
             events == NewEvents(a, originalVersion, MetadataFromContext(ctx), serial)
             r == SaveEvents(stream, originalVersion, events)
         IN [err |-> Nil, agg |-> [a EXCEPT !.stateChanges = <<>>],
             stream |-> r.stream, called |-> TRUE, expected |-> originalVersion]

\* (variant: no early return for an aggregate with nothing pending)
SaveWithoutNoOp(a, ctx, serial, stream) ==
    LET originalVersion == Version(a) - Len(a.stateChanges)
        events == NewEvents(a, originalVersion, MetadataFromContext(ctx), serial)
        r == SaveEvents(stream, originalVersion, events)
    IN IF r.err # Nil
       THEN [err |-> Wrap("save events", r.err), agg |-> a,
             stream |-> r.stream, called |-> TRUE, expected |-> originalVersion]
       ELSE [err |-> Nil, agg |-> [a EXCEPT !.stateChanges = <<>>],
             stream |-> r.stream, called |-> TRUE, expected |-> originalVersion]

\* (variant: the state changes saved are added to the version once more)
SaveBumpingVersion(a, ctx, serial, stream) ==
    IF Len(a.stateChanges) = 0
    THEN [err |-> Nil, agg |-> a, stream |-> stream, called |-> FALSE,
          expected |-> 0 - 1]
    ELSE LET originalVersion == Version(a) - Len(a.stateChanges)
             events == NewEvents(a, originalVersion, MetadataFromContext(ctx), serial)
             r == SaveEvents(stream, originalVersion, events)
         IN IF r.err # Nil
            THEN [err |-> Wrap("save events", r.err), agg |-> a,
                  stream |-> r.stream, called |-> TRUE,
                  expected |-> originalVersion]
            ELSE [err |-> Nil,
                  agg |-> [a EXCEPT !.version = @ + Len(a.stateChanges),
                                    !.stateChanges = <<>>],
                  stream |-> r.stream, called |-> TRUE,
                  expected |-> originalVersion]

\* Save: err, the aggregate afterwards, the stream afterwards, and whether
\* and with which expected version SaveEvents was called
Save(a, ctx, serial, stream) ==
    IF Len(a.stateChanges) = 0
    THEN [err |-> Nil, agg |-> a, stream |-> stream, called |-> FALSE,
          expected |-> 0 - 1]
    ELSE LET originalVersion == OriginalVersion(a)
             events == NewEvents(a, originalVersion, MetadataFromContext(ctx), serial)
             r == SaveEvents(stream, originalVersion, events)
         IN IF r.err # Nil
            THEN [err |-> Wrap("save events", r.err), agg |-> a,
                  stream |-> r.stream, called |-> TRUE,
                  expected |-> originalVersion]
            ELSE [err |-> Nil, agg |-> [a EXCEPT !.stateChanges = <<>>],
                  stream |-> r.stream, called |-> TRUE,
                  expected |-> originalVersion]

\* a panic unwinds through the callers; any other error is wrapped
IsPanic(err) == err = Sentinel(Panic)
WrapErr(prefix, err) == IF IsPanic(err) THEN err ELSE Wrap(prefix, err)

\* What a call has done when it returns (or is about to re-Load):
\*   err, agg   the values returned
\*   stream     the stream of the aggregate's id afterwards
\*   processed  how ChangeState ended: "no" (not called), "ok", "rejected",
\*              "panicked"
\*   saves      the number of SaveEvents calls, expected their expected version
\*   saved      whether SaveEvents appended
\*   reload     whether GetOrCreate goes on to Load again
Outcome(err, a, stream, processed, saves, expected, saved, reload) ==
    [err |-> err, agg |-> a, stream |-> stream, processed |-> processed,
     saves |-> saves, expected |-> expected, saved |-> saved, reload |-> reload]

NoExpected == 0 - 1

Failed(err, stream, processed) ==
    Outcome(err, NilAggregate, stream, processed, 0, NoExpected, FALSE, FALSE)

ProcessedAs(err) ==
    IF err = Nil THEN "ok" ELSE IF IsPanic(err) THEN "panicked" ELSE "rejected"

SaveCount(s) == IF s.called THEN 1 ELSE 0
\* whether the store's stream grew
Appended(s, stream) == Len(s.stream) > Len(stream)

\* (variant: the version is not looked at)
GetAfterLoadUnchecked(l, stream) ==
    IF l.err # Nil THEN Failed(l.err, stream, "no")
    ELSE Outcome(Nil, l.agg, stream, "no", 0, NoExpected, FALSE, FALSE)

\* Get after r.Load
GetAfterLoad(l, stream) ==
    IF l.err # Nil THEN Failed(l.err, stream, "no")
    ELSE IF Version(l.agg) = 0
        THEN Failed(Sentinel(ErrAggregateDoesNotExist), stream, "no")
    ELSE Outcome(Nil, l.agg, stream, "no", 0, NoExpected, FALSE, FALSE)

\* Create: whether the call ends right after r.Load
CreateEndsAtLoad(l) == l.err # Nil \/ Version(l.agg) # 0

CreateAtLoad(l, stream) ==
    IF l.err # Nil THEN Failed(WrapErr("load", l.err), stream, "no")
    ELSE Failed(Sentinel(ErrAggregateAlreadyExists), stream, "no")

\* (variant: a conflict of Save is returned as Update returns it)
CreateAfterLoadUntranslated(a, cmd, ctx, serial, stream) ==
    LET c == ChangeState(a, cmd)
    IN IF c.err # Nil
       THEN Failed(WrapErr("change state", c.err), stream, ProcessedAs(c.err))
       ELSE LET s == Save(c.agg, ctx, serial, stream)
            IN IF s.err # Nil
               THEN Outcome(Wrap("save", s.err), NilAggregate,
                            s.stream, "ok", SaveCount(s), s.expected, FALSE, FALSE)
               ELSE Outcome(Nil, s.agg, s.stream, "ok", SaveCount(s), s.expected,
                            Appended(s, stream), FALSE)

\* Create from agg.ChangeState on
CreateAfterLoad(a, cmd, ctx, serial, stream) ==
    LET c == ChangeState(a, cmd)
    IN IF c.err # Nil
       THEN Failed(WrapErr("change state", c.err), stream, ProcessedAs(c.err))
       ELSE LET s == Save(c.agg, ctx, serial, stream)
            IN IF s.err # Nil
               THEN IF ErrorsIs(s.err, ErrConcurrentUpdate)
                    THEN Outcome(Sentinel(ErrAggregateAlreadyExists), NilAggregate,
                                 s.stream, "ok", SaveCount(s), s.expected, FALSE, FALSE)
                    ELSE Outcome(Wrap("save", s.err), NilAggregate,
                                 s.stream, "ok", SaveCount(s), s.expected, FALSE, FALSE)
               ELSE Outcome(Nil, s.agg, s.stream, "ok", SaveCount(s), s.expected,
                            Appended(s, stream), FALSE)

\* (variant: an existing aggregate is taken to be one of version > 1)
GetOrCreateEndsAtLoadOffByOne(l) == l.err # Nil \/ Version(l.agg) > 1

\* GetOrCreate: whether the call ends right after the first r.Load
GetOrCreateEndsAtLoad(l) == l.err # Nil \/ Version(l.agg) > 0

GetOrCreateAtLoad(l, stream) ==
    IF l.err # Nil THEN Failed(WrapErr("load", l.err), stream, "no")
    ELSE Outcome(Nil, l.agg, stream, "no", 0, NoExpected, FALSE, FALSE)

\* (variant: a conflict of Save is returned, with no re-Load)
GetOrCreateAfterLoadPropagating(a, cmd, ctx, serial, stream) ==
    LET c == ChangeState(a, cmd)
    IN IF c.err # Nil
       THEN Failed(WrapErr("change state", c.err), stream, ProcessedAs(c.err))
       ELSE LET s == Save(c.agg, ctx, serial, stream)
            IN IF s.err # Nil
               THEN Outcome(Wrap("save", s.err), NilAggregate,
                            s.stream, "ok", SaveCount(s), s.expected, FALSE, FALSE)
               ELSE Outcome(Nil, s.agg, s.stream, "ok", SaveCount(s), s.expected,
                            Appended(s, stream), FALSE)

\* GetOrCreate from agg.ChangeState up to the re-Load
GetOrCreateAfterLoad(a, cmd, ctx, serial, stream) ==
    LET c == ChangeState(a, cmd)
    IN IF c.err # Nil
       THEN Failed(WrapErr("change state", c.err), stream, ProcessedAs(c.err))
       ELSE LET s == Save(c.agg, ctx, serial, stream)
            IN IF s.err # Nil
               THEN IF ErrorsIs(s.err, ErrConcurrentUpdate)
                    THEN Outcome(Nil, NilAggregate, s.stream, "ok", SaveCount(s),
                                 s.expected, FALSE, TRUE)
                    ELSE Outcome(Wrap("save", s.err), NilAggregate,
                                 s.stream, "ok", SaveCount(s), s.expected, FALSE, FALSE)
               ELSE Outcome(Nil, s.agg, s.stream, "ok", SaveCount(s), s.expected,
                            Appended(s, stream), FALSE)

\* (variant: the lost race is reported as Create reports it)
GetOrCreateAfterReloadExists(l) ==
    IF l.err # Nil THEN [err |-> WrapErr("load", l.err), agg |-> NilAggregate]
    ELSE [err |-> Sentinel(ErrAggregateAlreadyExists), agg |-> NilAggregate]

\* GetOrCreate after the second r.Load
GetOrCreateAfterReload(l) ==
    IF l.err # Nil THEN [err |-> WrapErr("load", l.err), agg |-> NilAggregate]
    ELSE [err |-> Nil, agg |-> l.agg]

\* (variant: the version is not looked at)
UpdateEndsAtLoadUnchecked(l) == l.err # Nil

\* Update: whether the call ends right after r.Load
UpdateEndsAtLoad(l) == l.err # Nil \/ Version(l.agg) = 0

UpdateAtLoad(l, stream) ==
    IF l.err # Nil THEN Failed(WrapErr("load", l.err), stream, "no")
    ELSE Failed(Sentinel(ErrAggregateDoesNotExist), stream, "no")

\* (variant: the error of ChangeState is not looked at)
UpdateAfterLoadIgnoringRejection(a, cmd, ctx, serial, stream) ==
    LET c == ChangeState(a, cmd)
        s == Save(c.agg, ctx, serial, stream)
    IN IF s.err # Nil
       THEN Outcome(Wrap("save", s.err), NilAggregate, s.stream,
                    ProcessedAs(c.err), SaveCount(s), s.expected, FALSE, FALSE)
       ELSE Outcome(Nil, s.agg, s.stream, ProcessedAs(c.err), SaveCount(s),
                    s.expected, Appended(s, stream), FALSE)

\* (variant: the error of Save is dropped)
UpdateAfterLoadSwallowing(a, cmd, ctx, serial, stream) ==
    LET c == ChangeState(a, cmd)
    IN IF c.err # Nil
       THEN Failed(WrapErr("change state", c.err), stream, ProcessedAs(c.err))
       ELSE LET s == Save(c.agg, ctx, serial, stream)
            IN Outcome(Nil, s.agg, s.stream, "ok", SaveCount(s), s.expected,
                       Appended(s, stream), FALSE)

\* Update from agg.ChangeState on
UpdateAfterLoad(a, cmd, ctx, serial, stream) ==
    LET c == ChangeState(a, cmd)
    IN IF c.err # Nil
       THEN Failed(WrapErr("change state", c.err), stream, ProcessedAs(c.err))
       ELSE LET s == Save(c.agg, ctx, serial, stream)
            IN IF s.err # Nil
               THEN Outcome(Wrap("save", s.err), NilAggregate, s.stream, "ok",
                            SaveCount(s), s.expected, FALSE, FALSE)
               ELSE Outcome(Nil, s.agg, s.stream, "ok", SaveCount(s), s.expected,
                            Appended(s, stream), FALSE)

\* ------------------------------------------------------------------- state
VARIABLES
    streams,     \* the store: aggregate id -> its events, in order
    issued,      \* the identifiers uuid.NewRandom has generated
    pc,          \* per caller: "idle", or the operation it is inside
    call,        \* per caller: the call in progress
    agg,         \* per caller: the aggregate it holds (NilAggregate: none)
    ret,         \* the latest return of a call, with what the call did
    opsStarted,  \* the number of calls started, the serial of the latest
    counting,    \* history: which returns are counted in tally
    tally,       \* history: how many calls have returned with which result
    sched,       \* which callers may start how many calls
    stage        \* history: how far the life-cycle scenario has come

vars == <<streams, issued, pc, call, agg, ret, opsStarted, counting, tally,
          sched, stage>>

\* ListEvents of the store: the empty sequence for an unknown id
ListEvents(id) == IF id \in DOMAIN streams THEN streams[id] ELSE <<>>

NoCommand == [type |-> "none"]
\* context.Background(): no metadata
Background == [metadata |-> NoMetadata]
NoCall == [id |-> EmptyID, cmd |-> NoCommand, ctx |-> Background, serial |-> 0,
           loaded |-> 0, listed |-> 0, expected |-> NoExpected]

NoRet ==
    [proc |-> 0, kind |-> "none", id |-> EmptyID, cmd |-> NoCommand,
     ctx |-> Background, serial |-> 0, err |-> Nil,
     isNil |-> TRUE, version |-> 0, pending |-> 0, loaded |-> 0,
     listed |-> 0, loads |-> 0,
     processed |-> "no", saves |-> 0, expected |-> NoExpected, saved |-> FALSE,
     before |-> 0, after |-> <<>>]

Start ==
    /\ streams = [id \in AllIDs |-> <<>>]
    /\ issued = {}
    /\ pc = [p \in Procs |-> "idle"]
    /\ call = [p \in Procs |-> NoCall]
    /\ agg = [p \in Procs |-> NilAggregate]
    /\ ret = NoRet
    /\ opsStarted = 0
    /\ tally = EmptyBag

\* sched: cap is the number of calls that may be started in all (those
\* beyond MaxOps only while the run is the life-cycle scenario); the
\* callers in free start any number of them, a caller in left one more.
Unrestricted == [cap |-> MaxOps, free |-> Procs, left |-> {}]
\* the caller of the life-cycle scenario
Client == 1
OneClient == [cap |-> MaxOps + 1, free |-> {Client}, left |-> Procs \ {Client}]

\* stage: the number of calls of the scenario that have returned as the
\* documentation says, Off when the run is not (or no longer) the scenario,
\* Diverged when a call of the scenario returned otherwise
Off == 0 - 1
Diverged == 0 - 2

\* counting: what the history keeps
None == "none"
Saves == "saves"
Calls == "calls"
\* the runs whose Create and GetOrCreate returns are kept: one call fewer
Shorter == [cap |-> MaxOps - 1, free |-> Procs, left |-> {}]

Init == Start /\ counting = None /\ sched = Unrestricted /\ stage = Off
InitCounted == Start /\ counting = Saves /\ sched = Unrestricted /\ stage = Off
InitCalls == Start /\ counting = Calls /\ sched = Shorter /\ stage = Off
InitLifeCycle == Start /\ counting = None /\ sched = OneClient /\ stage = 0

\* the ids a caller can pass: its own, and the generated ones it was given
KnownIDs == CallerIDs \cup issued

CanStart(p) ==
    /\ pc[p] = "idle"
    /\ opsStarted < sched.cap
    /\ opsStarted < MaxOps \/ stage \in 0..3
    /\ p \in sched.free \cup sched.left

\* a call of p has started
Started(p) ==
    /\ opsStarted' = opsStarted + 1
    /\ sched' = [sched EXCEPT !.left = @ \ {p}]

\* The life-cycle scenario: Create("", cmdOpen), Update(id, cmdClose),
\* Get(id), Create(id, cmdOpen), by Client, one after the other, with no
\* other call before or in between.
ScenarioKind(k) ==
    CASE k = 1 -> "Create" [] k = 2 -> "Update" [] k = 3 -> "Get"
      [] OTHER -> "Create"
ScenarioCmds(k) ==
    CASE k = 2 -> BookCloseCmds [] k = 3 -> {} [] OTHER -> BookCreateCmds
\* what the documentation says call k returns and leaves in the stream
AsDocumented(k, o) ==
    CASE k = 1 -> /\ o.err = Nil /\ ~o.agg.isNil /\ Version(o.agg) = 1
                  /\ o.saved /\ Len(o.stream) = 1
      [] k = 2 -> /\ o.err = Nil /\ ~o.agg.isNil /\ Version(o.agg) = 2
                  /\ o.saved /\ Len(o.stream) = 2
      [] k = 3 -> /\ o.err = Nil /\ ~o.agg.isNil /\ Version(o.agg) = 2
                  /\ o.agg.root.created /\ o.agg.root.closed
                  /\ Len(o.stream) = 2
      [] OTHER -> /\ ErrorsIs(o.err, ErrAggregateAlreadyExists)
                  /\ ~o.saved /\ Len(o.stream) = 2

\* stage after p's call of `kind` on id has loaded and goes on
StageAfterContinue(p, kind, id) ==
    IF stage \notin 0..3 THEN stage
    ELSE IF /\ p = Client
            /\ kind = ScenarioKind(stage + 1)
            /\ IF stage = 0 THEN id \notin KnownIDs ELSE id \in issued
         THEN stage
         ELSE Off

\* stage after p's call of `kind` on id with cmd has returned with outcome o
StageAfterReturn(p, kind, id, cmd, o) ==
    IF stage \notin 0..3 THEN stage
    ELSE IF /\ p = Client
            /\ kind = ScenarioKind(stage + 1)
            /\ id \in GeneratedIDs
            /\ cmd = NoCommand \/ cmd \in ScenarioCmds(stage + 1)
         THEN IF AsDocumented(stage + 1, o) THEN stage + 1 ELSE Diverged
         ELSE Off

\* The history counts, when counting is Saves, the returns of every call
\* that called SaveEvents and, when counting is Calls, the returns of
\* Create and GetOrCreate and of every call that appended: by the kind of
\* call, the id, the command a Create or GetOrCreate processed (under
\* Calls; NoCommand when it returned before reading its command), the
\* class of the error returned, the version returned, the expected version
\* handed to SaveEvents and whether SaveEvents appended.
ErrClass(err) ==
    IF err = Nil THEN "ok"
    ELSE IF err = Sentinel(ErrAggregateAlreadyExists) THEN "exists"
    ELSE IF ErrorsIs(err, ErrConcurrentUpdate) THEN "conflict"
    ELSE IF IsPanic(err) THEN "panic"
    ELSE "other"

Counted(kind, id, cmd, o) ==
    [kind |-> kind, id |-> id, cmd |-> cmd, res |-> ErrClass(o.err),
     version |-> Version(o.agg), expected |-> o.expected, saved |-> o.saved]

Count(kind, id, cmd, o) ==
    /\ tally' =
        IF counting = Saves /\ o.saves > 0
        THEN tally (+) SetToBag({Counted(kind, id, NoCommand, o)})
        ELSE IF counting = Calls /\ (kind \in {"Create", "GetOrCreate"} \/ o.saved)
        THEN tally (+) SetToBag({Counted(kind, id, cmd, o)})
        ELSE tally
    /\ UNCHANGED counting

\* the aggregateVersion values ListEvents returns for a stream
Versions(stream) == [n \in 1..Len(stream) |-> stream[n].aggregateVersion]

\* The return of call `serial` of kind `kind` by p, from outcome o:
\*   loaded, listed  the version the call's first Load computed and the number
\*                   of events that Load listed
\*   loads           the number of Loads of the call
\*   before          the length of the stream when the call's last step began
\*   after           the versions in the stream when the call returned
\*   cmd, ctx        the command the call processed and the context its Save
\*                   read (NoCommand, Background: not read)
Return(p, kind, id, cmd, ctx, serial, loaded, listed, loads, o) ==
    /\ ret' = [proc |-> p, kind |-> kind, id |-> id, cmd |-> cmd,
               ctx |-> IF o.saves > 0 THEN ctx ELSE Background,
               serial |-> serial,
               err |-> o.err, isNil |-> o.agg.isNil,
               version |-> Version(o.agg),
               pending |-> Len(o.agg.stateChanges), loaded |-> loaded,
               listed |-> listed, loads |-> loads, processed |-> o.processed,
               saves |-> o.saves, expected |-> o.expected, saved |-> o.saved,
               before |-> Len(ListEvents(id)), after |-> Versions(o.stream)]
    /\ Count(kind, id, IF kind \in {"Create", "GetOrCreate"} THEN cmd ELSE NoCommand, o)
    /\ agg' = [agg EXCEPT ![p] = o.agg]
    /\ pc' = [pc EXCEPT ![p] = "idle"]
    /\ call' = [call EXCEPT ![p] = NoCall]
    /\ stage' = StageAfterReturn(p, kind, id, cmd, o)

\* the call goes on after its first Load, holding the loaded aggregate
Continue(p, kind, id, serial, l, listed) ==
    /\ pc' = [pc EXCEPT ![p] = kind]
    /\ call' = [call EXCEPT ![p] =
            [id |-> id, cmd |-> NoCommand, ctx |-> Background,
             serial |-> serial, loaded |-> Version(l.agg),
             listed |-> listed, expected |-> NoExpected]]
    /\ agg' = [agg EXCEPT ![p] = l.agg]
    /\ stage' = StageAfterContinue(p, kind, id)
    /\ UNCHANGED <<ret, counting, tally>>

\* ---------------------------------------------------------------- actions
Get(p) ==
    /\ CanStart(p)
    /\ \E id \in KnownIDs \cup {EmptyID} :
        LET events == ListEvents(id)
            l == Load(id, events)
        IN Return(p, "Get", id, NoCommand, Background, opsStarted + 1, Version(l.agg), Len(events), 1,
                  GetAfterLoad(l, events))
    /\ Started(p)
    /\ UNCHANGED <<streams, issued>>

\* the id a call works on: the given one, or a new one for the empty id
ResolveID(given, id) ==
    IF given = EmptyID
    THEN id \in GeneratedIDs \ issued /\ issued' = issued \cup {id}
    ELSE id = given /\ UNCHANGED issued

CreateLoad(p) ==
    /\ CanStart(p)
    /\ \E given \in KnownIDs \cup {EmptyID}, id \in AllIDs :
        /\ ResolveID(given, id)
        /\ LET events == ListEvents(id)
               l == Load(id, events)
           IN IF CreateEndsAtLoad(l)
              THEN Return(p, "Create", id, NoCommand, Background, opsStarted + 1, Version(l.agg),
                          Len(events), 1, CreateAtLoad(l, events))
              ELSE Continue(p, "Create", id, opsStarted + 1, l, Len(events))
    /\ Started(p)
    /\ UNCHANGED streams

CreateSave(p) ==
    /\ pc[p] = "Create"
    /\ \E cmd \in Commands, ctx \in Contexts :
        LET c == call[p]
            o == CreateAfterLoad(agg[p], cmd, ctx, c.serial, ListEvents(c.id))
        IN /\ streams' = [streams EXCEPT ![c.id] = o.stream]
           /\ Return(p, "Create", c.id, cmd, ctx, c.serial, c.loaded, c.listed, 1, o)
    /\ UNCHANGED <<issued, opsStarted, sched>>

GetOrCreateLoad(p) ==
    /\ CanStart(p)
    /\ \E given \in KnownIDs \cup {EmptyID}, id \in AllIDs :
        /\ ResolveID(given, id)
        /\ LET events == ListEvents(id)
               l == Load(id, events)
           IN IF GetOrCreateEndsAtLoad(l)
              THEN Return(p, "GetOrCreate", id, NoCommand, Background, opsStarted + 1, Version(l.agg),
                          Len(events), 1, GetOrCreateAtLoad(l, events))
              ELSE Continue(p, "GetOrCreate", id, opsStarted + 1, l, Len(events))
    /\ Started(p)
    /\ UNCHANGED streams

GetOrCreateSave(p) ==
    /\ pc[p] = "GetOrCreate"
    /\ \E cmd \in Commands, ctx \in Contexts :
        LET c == call[p]
            o == GetOrCreateAfterLoad(agg[p], cmd, ctx, c.serial, ListEvents(c.id))
        IN /\ streams' = [streams EXCEPT ![c.id] = o.stream]
           /\ IF o.reload
              THEN /\ pc' = [pc EXCEPT ![p] = "GetOrCreateReload"]
                   /\ call' = [call EXCEPT ![p].expected = o.expected,
                                            ![p].cmd = cmd, ![p].ctx = ctx]
                   /\ agg' = [agg EXCEPT ![p] = NilAggregate]
                   /\ stage' = StageAfterContinue(p, "GetOrCreate", c.id)
                   /\ UNCHANGED <<ret, counting, tally>>
              ELSE Return(p, "GetOrCreate", c.id, cmd, ctx, c.serial, c.loaded, c.listed, 1, o)
    /\ UNCHANGED <<issued, opsStarted, sched>>

GetOrCreateReload(p) ==
    /\ pc[p] = "GetOrCreateReload"
    /\ LET c == call[p]
           events == ListEvents(c.id)
           r == GetOrCreateAfterReload(Load(c.id, events))
       IN Return(p, "GetOrCreate", c.id, c.cmd, c.ctx, c.serial, c.loaded, c.listed, 2,
                 Outcome(r.err, r.agg, events, "ok", 1, c.expected, FALSE, FALSE))
    /\ UNCHANGED <<streams, issued, opsStarted, sched>>

UpdateLoad(p) ==
    /\ CanStart(p)
    /\ \E id \in KnownIDs \cup {EmptyID} :
        LET events == ListEvents(id)
            l == Load(id, events)
        IN IF UpdateEndsAtLoad(l)
           THEN Return(p, "Update", id, NoCommand, Background, opsStarted + 1, Version(l.agg),
                       Len(events), 1, UpdateAtLoad(l, events))
           ELSE Continue(p, "Update", id, opsStarted + 1, l, Len(events))
    /\ Started(p)
    /\ UNCHANGED <<streams, issued>>

UpdateSave(p) ==
    /\ pc[p] = "Update"
    /\ \E cmd \in Commands, ctx \in Contexts :
        LET c == call[p]
            o == UpdateAfterLoad(agg[p], cmd, ctx, c.serial, ListEvents(c.id))
        IN /\ streams' = [streams EXCEPT ![c.id] = o.stream]
           /\ Return(p, "Update", c.id, cmd, ctx, c.serial, c.loaded, c.listed, 1, o)
    /\ UNCHANGED <<issued, opsStarted, sched>>

\* the lower-level pair Load / Save, and ChangeState on the aggregate held
LoadCall(p) ==
    /\ CanStart(p)
    /\ \E id \in KnownIDs :
        LET events == ListEvents(id)
            l == Load(id, events)
        IN Return(p, "Load", id, NoCommand, Background, opsStarted + 1, Version(l.agg), Len(events), 1,
                  Outcome(l.err, l.agg, events, "no", 0, NoExpected, FALSE, FALSE))
    /\ Started(p)
    /\ UNCHANGED <<streams, issued>>

ChangeStateCall(p) ==
    /\ CanStart(p)
    /\ ~agg[p].isNil
    /\ \E cmd \in Commands :
        LET a == agg[p]
            c == ChangeState(a, cmd)
        IN Return(p, "ChangeState", a.id, cmd, Background, opsStarted + 1,
                  OriginalVersion(a), OriginalVersion(a), 0,
                  Outcome(c.err, IF IsPanic(c.err) THEN NilAggregate ELSE c.agg,
                          ListEvents(a.id), ProcessedAs(c.err), 0, NoExpected,
                          FALSE, FALSE))
    /\ Started(p)
    /\ UNCHANGED <<streams, issued>>

SaveCall(p) ==
    /\ CanStart(p)
    /\ ~agg[p].isNil
    /\ \E ctx \in Contexts :
        LET a == agg[p]
            s == Save(a, ctx, opsStarted + 1, ListEvents(a.id))
        IN /\ streams' = [streams EXCEPT ![a.id] = s.stream]
           /\ Return(p, "Save", a.id, NoCommand, ctx, opsStarted + 1,
                     OriginalVersion(a), OriginalVersion(a), 0,
                     Outcome(s.err, s.agg, s.stream, "no", SaveCount(s), s.expected,
                             Appended(s, ListEvents(a.id)), FALSE))
    /\ Started(p)
    /\ UNCHANGED issued

Next ==
    \E p \in Procs :
        \/ Get(p)
        \/ CreateLoad(p)
        \/ CreateSave(p)
        \/ GetOrCreateLoad(p)
        \/ GetOrCreateSave(p)
        \/ GetOrCreateReload(p)
        \/ UpdateLoad(p)
        \/ UpdateSave(p)
        \/ LoadCall(p)
        \/ ChangeStateCall(p)
        \/ SaveCall(p)

Spec == Init /\ [][Next]_vars

\* The same program with the history of the calls of SaveEvents in tally.
SpecCounted == InitCounted /\ [][Next]_vars

\* The same program, in runs of one call fewer, with the history of the
\* returns of Create and GetOrCreate and of the calls that appended.
SpecCalls == InitCalls /\ [][Next]_vars

\* The same program with one caller making up to MaxOps + 1 calls in
\* sequence, every other caller one call, and stage following the scenario.
SpecLifeCycle == InitLifeCycle /\ [][Next]_vars

\* ================================================================ claims
\* the serials of the calls whose events are in the stream of id
SerialsIn(id) == {ListEvents(id)[n].id[1] : n \in 1..Len(ListEvents(id))}

RECURSIVE SumOver(_, _)
SumOver(S, f) ==
    IF S = {} THEN 0
    ELSE LET x == CHOOSE y \in S : TRUE IN f[x] + SumOver(S \ {x}, f)

\* the number of counted returns that satisfy a condition
Returned == BagToSet(tally)
HowMany(S) == SumOver(S, tally)

\* the counted calls that called SaveEvents
SaveAttempts == {r \in Returned : r.expected # NoExpected}
SavesWon(id, v) ==
    HowMany({w \in SaveAttempts : w.id = id /\ w.expected = v /\ w.saved})

\* C1  Optimistic exclusivity.  For every aggregate id and expected version
\* that some Save handed to SaveEvents, exactly one Save with that pair
\* appended; every other one lost: a Save or Update that lost returned an
\* error that is ErrConcurrentUpdate, none of its events is in the stream,
\* and the stream holds the winner's events after the expected version, so
\* a Load by the loser returns them.
C1_OptimisticExclusivity ==
    /\ \A r \in SaveAttempts :
        /\ SavesWon(r.id, r.expected) = 1
        /\ ~r.saved =>
            /\ r.kind \in {"Save", "Update"} => r.res = "conflict"
            /\ Len(ListEvents(r.id)) > r.expected
    /\ (ret.saves > 0 /\ ~ret.saved) =>
        /\ ret.serial \notin SerialsIn(ret.id)
        /\ Len(ret.after) = ret.before
        /\ Len(ListEvents(ret.id)) > ret.expected
        /\ ListEvents(ret.id)[ret.expected + 1].aggregateVersion = ret.expected + 1

\* two Saves with the same id and expected version have returned, one having
\* appended and one having lost with the conflict error
C1_Witness ==
    \E w \in SaveAttempts, r \in SaveAttempts :
        /\ w.id = r.id /\ w.expected = r.expected
        /\ w.saved /\ ~r.saved /\ r.res = "conflict"
        /\ ret.saves > 0 /\ ~ret.saved /\ ret.id = r.id

\* C2  Version contiguity.  In every reachable state the event at position n
\* of every stream has aggregateVersion n; and when a Save has appended, the
\* versions ListEvents returns for the aggregate's id are exactly
\* 1..version of the saved aggregate.
Contiguous(stream) == \A n \in 1..Len(stream) : stream[n].aggregateVersion = n

Creates(id) == {r \in Returned : r.kind = "Create" /\ r.id = id}
GetOrCreates(id) == {r \in Returned : r.kind = "GetOrCreate" /\ r.id = id}
Writers(id) == {r.kind : r \in {x \in Returned : x.id = id /\ x.saved}}

\* ChangeState on a new aggregate takes the command: the root accepts it,
\* it yields a state change and applying it does not panic
TakenOnNew(id, cmd) ==
    LET c == ChangeState(Load(id, <<>>).agg, cmd)
    IN c.err = Nil /\ Len(c.agg.stateChanges) > 0

\* the calls made with a given command (a call that returned before reading
\* its command behaves alike for every command), and those whose command a
\* new aggregate takes
With(S, cmd) == {r \in S : r.cmd \in {cmd, NoCommand}}
Taken(S) == {r \in S : r.cmd = NoCommand \/ TakenOnNew(r.id, r.cmd)}

\* C3 (as amended)  Create uniqueness.  Of the Create calls on one id whose
\* command ChangeState takes on a new aggregate, at most one succeeds and
\* every other one returns ErrAggregateAlreadyExists; exactly one succeeds
\* when no other kind of call has written to the id.  So two such calls
\* yield success once and already-exists once, in either order and under
\* every interleaving of their Load and Save steps.
C3_CreateUniqueness ==
    \A id \in AllIDs :
        LET taken == Taken(Creates(id))
            ok == HowMany({r \in taken : r.res = "ok"})
            exists == HowMany({r \in taken : r.res = "exists"})
        IN /\ ok <= 1
           /\ ok + exists = HowMany(taken)
           /\ (taken # {} /\ Writers(id) \subseteq {"Create"}) => ok = 1

\* two Create calls on "a" with one command have returned, one with success
\* and one, having lost the race at Save, with ErrAggregateAlreadyExists
C3_Witness ==
    \E id \in CallerIDs, cmd \in Commands :
        LET calls == With(Creates(id), cmd)
        IN /\ TakenOnNew(id, cmd)
           /\ HowMany(calls) = 2
           /\ HowMany({r \in calls : r.res = "ok"}) = 1
           /\ \E r \in calls : r.res = "exists" /\ r.expected = 0

\* C3 (as claimed)  Two Create calls with the same non-empty id and the same
\* command, whatever the command, yield success once and already-exists
\* once (no other writer of the id).
C3_Original ==
    \A id \in CallerIDs, cmd \in Commands :
        LET calls == With(Creates(id), cmd)
        IN (/\ HowMany(Creates(id)) = 2
            /\ calls = Creates(id)
            /\ Writers(id) \subseteq {"Create"})
           => /\ HowMany({r \in calls : r.res = "ok"}) = 1
              /\ HowMany({r \in calls : r.res = "exists"}) = 1

\* C4 (as amended)  GetOrCreate convergence.  When only GetOrCreate calls
\* write to an id, the GetOrCreate calls on it whose command ChangeState
\* takes on a new aggregate all return successfully, with the same version,
\* the length of the stream, and the state changes of exactly one of them
\* are in the stream.
C4_GetOrCreateConvergence ==
    \A id \in AllIDs :
        LET taken == Taken(GetOrCreates(id))
        IN (taken # {} /\ Writers(id) \subseteq {"GetOrCreate"}) =>
            /\ \A r \in taken : r.res = "ok" /\ r.version = Len(streams[id])
            /\ HowMany({r \in taken : r.saved}) = 1
            /\ Cardinality(SerialsIn(id)) = 1

\* two GetOrCreate calls on "a" with one command have returned, one of them
\* after losing the race at Save
C4_Witness ==
    \E id \in CallerIDs, cmd \in Commands :
        LET calls == With(GetOrCreates(id), cmd)
        IN /\ TakenOnNew(id, cmd)
           /\ HowMany(calls) >= 2
           /\ Writers(id) = {"GetOrCreate"}
           /\ \E r \in calls : r.expected = 0 /\ ~r.saved /\ r.res = "ok"

\* C4 (as claimed)  N >= 2 GetOrCreate calls with the same id and the same
\* command, whatever the command, all return successfully with the same
\* version and the state changes of exactly one of them are persisted (no
\* other writer of the id).
C4_Original ==
    \A id \in CallerIDs, cmd \in Commands :
        LET calls == With(GetOrCreates(id), cmd)
        IN (/\ HowMany(GetOrCreates(id)) >= 2
            /\ calls = GetOrCreates(id)
            /\ Writers(id) \subseteq {"GetOrCreate"})
           => /\ \A r \in calls : r.res = "ok" /\ r.version = Len(streams[id])
              /\ HowMany({r \in calls : r.saved}) = 1

\* what a call that did not append leaves in the store: none of its events,
\* and the stream of its id as long as it was
LeftUnchanged(r) ==
    /\ ~r.saved
    /\ r.serial \notin SerialsIn(r.id)
    /\ Len(r.after) = r.before

\* C5  Update neither overwrites a concurrent write nor retries.  When the
\* stream has grown between an Update's Load and its Save, the Update
\* returns an error that is ErrConcurrentUpdate and no aggregate, after one
\* Load and one SaveEvents with the loaded version as the expected one; none
\* of its events is in the stream, which holds the other writers' events
\* after the loaded version.
C5_UpdateConflict ==
    (ret.kind = "Update" /\ ret.processed = "ok" /\ ret.before > ret.listed) =>
        /\ ErrorsIs(ret.err, ErrConcurrentUpdate)
        /\ ret.isNil
        /\ ret.loads = 1 /\ ret.saves = 1 /\ ret.expected = ret.loaded
        /\ LeftUnchanged(ret)
        /\ Len(ListEvents(ret.id)) > ret.loaded

C5_Witness ==
    /\ ret.kind = "Update" /\ ret.processed = "ok" /\ ret.before > ret.listed
    /\ ret.listed > 0
    /\ ErrorsIs(ret.err, ErrConcurrentUpdate)

\* C6  Create reports a lost race as ErrAggregateAlreadyExists.  When
\* Create's Load saw an empty stream and the stream has events at its Save,
\* Create returns ErrAggregateAlreadyExists itself, not the conflict error,
\* and none of its events is in the stream; and when its Load sees a
\* non-empty stream it returns ErrAggregateAlreadyExists without processing
\* the command or calling SaveEvents.
C6_CreateLostRace ==
    /\ (ret.kind = "Create" /\ ret.processed = "ok" /\ ret.before > 0) =>
        /\ ret.err = Sentinel(ErrAggregateAlreadyExists)
        /\ ~ErrorsIs(ret.err, ErrConcurrentUpdate)
        /\ ret.isNil /\ ret.listed = 0 /\ ret.saves = 1
        /\ LeftUnchanged(ret)
    /\ (ret.kind = "Create" /\ ret.listed > 0) =>
        /\ ret.err = Sentinel(ErrAggregateAlreadyExists)
        /\ ret.isNil /\ ret.processed = "no" /\ ret.saves = 0
        /\ LeftUnchanged(ret)

C6_Witness ==
    /\ ret.kind = "Create" /\ ret.processed = "ok" /\ ret.before > 0
    /\ ret.err = Sentinel(ErrAggregateAlreadyExists)
    /\ Len(ListEvents(ret.id)) > 0

\* C7  GetOrCreate never fails on a conflict.  No GetOrCreate returns an
\* error that is ErrConcurrentUpdate or ErrAggregateAlreadyExists; one whose
\* Save lost the race has loaded twice and returns, without error, the
\* aggregate of its second Load; every other one has loaded once.
C7_GetOrCreateNoConflict ==
    ret.kind = "GetOrCreate" =>
        /\ ~ErrorsIs(ret.err, ErrConcurrentUpdate)
        /\ ~ErrorsIs(ret.err, ErrAggregateAlreadyExists)
        /\ IF ret.saves > 0 /\ ~ret.saved
           THEN /\ ret.loads = 2
                /\ ret.err = Nil /\ ~ret.isNil
                /\ ret.version = ret.before /\ ret.version > 0
                /\ ret.pending = 0
           ELSE ret.loads = 1

C7_Witness ==
    /\ ret.kind = "GetOrCreate" /\ ret.saves > 0 /\ ~ret.saved
    /\ ret.loads = 2 /\ ret.err = Nil

\* C8  GetOrCreate on an existing aggregate is a no-op.  When the stream is
\* non-empty at GetOrCreate's Load, the command is not processed,
\* SaveEvents is not called, the call leaves the stream as it was, and the
\* aggregate returned has the version that was loaded.
C8_GetOrCreateExisting ==
    (ret.kind = "GetOrCreate" /\ ret.listed > 0) =>
        /\ ret.processed = "no" /\ ret.saves = 0 /\ ret.loads = 1
        /\ LeftUnchanged(ret)
        /\ ret.err = Nil /\ ~ret.isNil
        /\ ret.version = ret.loaded /\ ret.version = ret.listed
        /\ ret.pending = 0

C8_Witness ==
    /\ ret.kind = "GetOrCreate" /\ ret.listed > 0
    /\ ret.err = Nil /\ ret.version = ret.listed

\* C9  Get is read-only and fails exactly on empty streams.  Get returns an
\* error that is ErrAggregateDoesNotExist exactly when the stream has no
\* events at its Load; otherwise it returns an aggregate whose version is
\* the length of the stream; it never calls SaveEvents and leaves the
\* stream as it was.
C9_Get ==
    ret.kind = "Get" =>
        /\ ErrorsIs(ret.err, ErrAggregateDoesNotExist) <=> ret.listed = 0
        /\ ret.listed = 0 => ret.isNil
        /\ ret.listed > 0 =>
            ret.err = Nil /\ ~ret.isNil /\ ret.version = ret.listed
        /\ ret.processed = "no" /\ ret.saves = 0 /\ ret.loads = 1
        /\ LeftUnchanged(ret)

C9_Witness ==
    /\ ret.kind = "Get" /\ ret.listed >= 2
    /\ ret.err = Nil /\ ret.version = ret.listed

\* C10  Update never creates a stream.  Update on an id whose stream is
\* empty at its Load returns an error that is ErrAggregateDoesNotExist,
\* without processing the command and without calling SaveEvents, and
\* leaves the stream empty.
C10_UpdateMissing ==
    (ret.kind = "Update" /\ ret.listed = 0) =>
        /\ ErrorsIs(ret.err, ErrAggregateDoesNotExist)
        /\ ret.isNil
        /\ ret.processed = "no" /\ ret.saves = 0 /\ ret.loads = 1
        /\ LeftUnchanged(ret)
        /\ ret.after = <<>>

C10_Witness ==
    /\ ret.kind = "Update" /\ ret.listed = 0 /\ ret.id \in CallerIDs
    /\ ErrorsIs(ret.err, ErrAggregateDoesNotExist)

\* a call has just returned: ret' is the return of a call other than ret's
Returns == ret'.serial # ret.serial

\* C11  No-op Save.  Save on an aggregate with no pending state changes
\* does not call SaveEvents, returns no error and leaves the aggregate and
\* every stream as they were, whatever the stream of its id holds by then
\* and however often it is called.
C11_NoOpSave ==
    [][(/\ Returns /\ ret'.kind = "Save"
        /\ Len(agg[ret'.proc].stateChanges) = 0)
       => /\ ret'.err = Nil /\ ret'.saves = 0
          /\ agg'[ret'.proc] = agg[ret'.proc]
          /\ streams' = streams]_vars

\* a Save with nothing pending has returned, on an aggregate that other
\* writers have made stale since it was loaded
C11_Witness ==
    /\ ret.kind = "Save" /\ ret.saves = 0 /\ ret.err = Nil /\ ret.pending = 0
    /\ Len(ListEvents(ret.id)) > ret.version

\* C13  Sequential life cycle.  On an empty store, with no other call before
\* or in between, Client's Create("", cmdOpen) on a newly generated id
\* returns version 1 and leaves 1 event; its Update(id, cmdClose) then
\* returns version 2 and leaves 2 events; its Get(id) then returns version
\* 2 and a root that is created and closed; its Create(id, cmdOpen) then
\* fails with ErrAggregateAlreadyExists and leaves the 2 events: no call
\* of the scenario returns otherwise.
C13_LifeCycle == stage # Diverged

\* the four calls of the scenario have returned, the last one just now
C13_Witness ==
    /\ stage = 4
    /\ ret.kind = "Create" /\ ret.proc = Client /\ ret.serial = 4
    /\ ErrorsIs(ret.err, ErrAggregateAlreadyExists)
    /\ Len(ListEvents(ret.id)) = 2

\* a Save of the aggregate its caller holds returns, having appended
SaveSucceeds ==
    /\ Returns /\ ret'.kind = "Save" /\ ret'.saved /\ ret'.err = Nil
    /\ Len(agg[ret'.proc].stateChanges) > 0

\* C14 (as amended)  Version accounting across Save.  A Save that succeeds
\* on an aggregate with pending state changes leaves the version as it was
\* before the Save, which is the expected version it handed to SaveEvents
\* plus the number of state changes that were pending, and is the length
\* of the stream afterwards; nothing is pending afterwards.
C14_VersionAcrossSave ==
    [][SaveSucceeds =>
        LET before == agg[ret'.proc]
            after == agg'[ret'.proc]
        IN /\ Version(after) = Version(before)
           /\ Version(after) = ret'.expected + Len(before.stateChanges)
           /\ Version(after) = Len(streams'[ret'.id])
           /\ Len(after.stateChanges) = 0]_vars

\* a Save has appended the state change of an aggregate loaded at version 1
C14_Witness ==
    /\ ret.kind = "Save" /\ ret.saved /\ ret.err = Nil
    /\ ret.expected = 1 /\ ret.version = 2
    /\ Len(ListEvents(ret.id)) = 2

\* C14 (as claimed)  The version after a successful Save is the version
\* before the Save plus the number of state changes pending before it.
C14_Original ==
    [][SaveSucceeds =>
        Version(agg'[ret'.proc]) =
            Version(agg[ret'.proc]) + Len(agg[ret'.proc].stateChanges)]_vars

\* one sequence is the beginning of another
IsPrefix(s, t) == Len(s) <= Len(t) /\ SubSeq(t, 1, Len(s)) = s

\* C15  Append-only streams.  Every step of every call leaves each stream
\* with the events it had, unchanged and in the same order, at its
\* beginning: a stream only grows at its end and loses no event.
C15_AppendOnly ==
    [][\A id \in AllIDs : IsPrefix(streams[id], streams'[id])]_vars

\* a stream holds the events of two calls, the later ones appended by the
\* call that has just returned
C15_Witness ==
    /\ ret.saved /\ ret.expected >= 1
    /\ Len(ListEvents(ret.id)) >= 2
    /\ Cardinality(SerialsIn(ret.id)) >= 2

\* a call that has read its command returns, and ProcessCommand of the
\* root the call held fails on that command
RejectedBy(kinds) ==
    /\ Returns /\ ret'.kind \in kinds /\ ret'.cmd # NoCommand
    /\ ProcessCommand(agg[ret'.proc].root, ret'.cmd).err # Nil

\* C16  A rejected command persists nothing.  When ProcessCommand fails
\* inside Create, GetOrCreate or Update, the call returns that error
\* (wrapped as "change state") and no aggregate, SaveEvents is not called
\* and no stream changes; ChangeState itself returns the error and leaves
\* the aggregate (root, version, pending state changes) as it was.
C16_RejectedCommand ==
    [][/\ RejectedBy({"Create", "GetOrCreate", "Update"}) =>
            LET before == agg[ret'.proc]
                r == ProcessCommand(before.root, ret'.cmd)
            IN /\ ret'.err = Wrap("change state", r.err)
               /\ ErrorsIs(ret'.err, r.err[Len(r.err)])
               /\ ret'.isNil /\ ret'.saves = 0 /\ ~ret'.saved
               /\ streams' = streams
               /\ ChangeState(before, ret'.cmd).agg = before
       /\ RejectedBy({"ChangeState"}) =>
            /\ ret'.err = ProcessCommand(agg[ret'.proc].root, ret'.cmd).err
            /\ agg'[ret'.proc] = agg[ret'.proc]
            /\ streams' = streams]_vars

\* an Update has returned the rejection of its command by an existing book
C16_Witness ==
    /\ ret.kind = "Update" /\ ret.processed = "rejected" /\ ret.listed > 0
    /\ ErrorsIs(ret.err, ErrBookAlreadyCreated)
    /\ ret.saves = 0 /\ Len(ListEvents(ret.id)) = ret.listed

\* the causation identifiers in the metadata of a stream's events, and the
\* events of a stream that one call appended
CausationsIn(stream) ==
    {kv[2] : kv \in {x \in UNION {stream[n].metadata : n \in 1..Len(stream)} :
                        x[1] = CausationID}}
BatchOf(serial, stream) == {n \in 1..Len(stream) : stream[n].id[1] = serial}

\* C17  Causation round trip.  The events one Save appended all carry the
\* same metadata, that of the context the Save was called with; the
\* causation identifiers a Load (or Get) returns are exactly those in the
\* metadata of the stream's events, none for an empty stream; and the
\* identifiers in a stream are never lost, so that once a call with
\* causation identifier c has saved an event, every later Load returns c.
C17_CausationRoundTrip ==
    /\ [](\A id \in AllIDs :
            /\ \A m, n \in 1..Len(streams[id]) :
                streams[id][m].id[1] = streams[id][n].id[1] =>
                    streams[id][m].metadata = streams[id][n].metadata
            /\ Load(id, streams[id]).err = Nil
            /\ Load(id, streams[id]).agg.causationIDs = CausationsIn(streams[id]))
    /\ [](ret.saved =>
            /\ BatchOf(ret.serial, streams[ret.id]) # {}
            /\ \A n \in BatchOf(ret.serial, streams[ret.id]) :
                streams[ret.id][n].metadata = MetadataFromContext(ret.ctx)
            /\ MetadataLookup(MetadataFromContext(ret.ctx), CausationID)
                \subseteq Load(ret.id, streams[ret.id]).agg.causationIDs)
    /\ [][(Returns /\ ret'.kind \in {"Load", "Get"} /\ ret'.err = Nil) =>
            agg'[ret'.proc].causationIDs = CausationsIn(streams'[ret'.id])]_vars
    /\ [][\A id \in AllIDs :
            CausationsIn(streams[id]) \subseteq CausationsIn(streams'[id])]_vars

\* a Save called with causation identifier "c1" has appended two events,
\* and a Load of the stream returns "c1"
C17_Witness ==
    /\ ret.saved
    /\ MetadataLookup(MetadataFromContext(ret.ctx), CausationID) = {"c1"}
    /\ BatchOf(ret.serial, streams[ret.id]) # {}
    /\ Len(streams[ret.id]) = 2
    /\ Load(ret.id, streams[ret.id]).agg.causationIDs = {"c1"}

\* the calls that Load, call ChangeState once and Save
Composite == {"Create", "GetOrCreate", "Update"}

\* C18: the expected version Save hands to SaveEvents is the stream length
\* the call's Load observed. The version Load computes is the number of
\* events it listed; one ChangeState on the aggregate leaves
\* version - len(pendingStateChanges) at the loaded version; the events of
\* the call are numbered loadedVersion+1 .. loadedVersion+k in the order
\* ProcessCommand produced the state changes, and carry the aggregate's ID.
C18_ExpectedVersion ==
    /\ ret.kind \in Composite \cup {"Load", "Get"} => ret.loaded = ret.listed
    /\ (ret.kind = "Load" /\ ret.err = Nil) =>
            ret.version = ret.listed /\ ret.pending = 0
    /\ (ret.kind = "ChangeState" /\ ret.processed = "ok") =>
            ret.pending > 0 /\ ret.version - ret.pending = ret.loaded
    /\ ret.saves > 0 => ret.expected = ret.loaded
    /\ ret.saved =>
        LET stream == streams[ret.id]
            batch == BatchOf(ret.serial, stream)
            loaded == Load(ret.id, SubSeq(stream, 1, ret.loaded)).agg
            produced == ProcessCommand(loaded.root, ret.cmd).stateChanges
        IN /\ batch # {}
           /\ \A n \in batch :
                /\ stream[n].aggregateVersion = ret.loaded + stream[n].id[2]
                /\ stream[n].aggregateVersion = n
                /\ stream[n].aggregateID = ret.id
           /\ ret.kind \in Composite =>
                /\ batch = (ret.listed + 1)..(ret.listed + Len(produced))
                /\ \A n \in batch :
                    stream[n].data = AnyNew(produced[n - ret.listed])

\* an Update that loaded a stream of one event and appended the second
C18_Witness ==
    /\ ret.kind = "Update" /\ ret.saved
    /\ ret.listed = 1 /\ ret.expected = 1
    /\ Len(streams[ret.id]) = 2
    /\ streams[ret.id][2].aggregateVersion = 2
    /\ streams[ret.id][2].aggregateID = ret.id

\* the positions of the events of one state-change type in a stream
PositionsOf(type, stream) ==
    {n \in 1..Len(stream) : stream[n].data.typeUrl = TypeURLPrefix \o type}

\* C19: a closed Book is final in its stream. In every stream, under any
\* interleaving of the callers, BookClosed occurs at most once and nothing
\* follows it, and BookCreated occurs at most once; no step appends to a
\* stream that ends in BookClosed, so a writer that loaded the book before
\* the close cannot append after it.
C19_ClosedIsFinal ==
    /\ [](\A id \in AllIDs :
            /\ PositionsOf("BookClosed", streams[id]) \subseteq {Len(streams[id])}
            /\ Cardinality(PositionsOf("BookCreated", streams[id])) <= 1)
    /\ [][\A id \in AllIDs :
            PositionsOf("BookClosed", streams[id]) # {} =>
                streams'[id] = streams[id]]_vars

\* an Update that loaded the open book, had its command accepted and lost
\* to the writer that closed the book in between
C19_Witness ==
    /\ ret.kind = "Update" /\ ret.processed = "ok"
    /\ ret.cmd \in BookAccountAddCmds
    /\ ErrorsIs(ret.err, ErrConcurrentUpdate) /\ ~ret.saved
    /\ ret.listed = 1
    /\ Len(streams[ret.id]) = 2
    /\ PositionsOf("BookCreated", streams[ret.id]) = {1}
    /\ PositionsOf("BookClosed", streams[ret.id]) = {2}

\* C20: accepted Book commands are always applicable. For the Book that
\* replaying any stream yields (the zero-value Book for a stream without
\* events) and every command, if ProcessCommand accepts the command then
\* applying the returned state changes in order does not panic.
C20_AcceptedIsApplicable ==
    \A id \in AllIDs, cmd \in Commands :
        LET a == Load(id, streams[id]).agg
            r == ProcessCommand(a.root, cmd)
        IN r.err = Nil => ApplyPending(a, r.stateChanges, 1).err = Nil

\* a Create whose BookAccountAdd was accepted on the never-created Book
\* and panicked while being applied
C20_Witness ==
    /\ ret.kind = "Create" /\ ret.processed = "panicked"
    /\ ret.cmd = [type |-> "BookAccountAdd", accountName |-> "x",
                  accountType |-> AccountType_ASSET]
    /\ IsPanic(ret.err)
    /\ streams[ret.id] = <<>>

====
